---- MODULE Spec2Model ----
(***************************************************************************)
(* Model of src/book_rec.py: the BookRecommender object.                   *)
(*                                                                         *)
(* Strings the program inspects character by character (book ids typed by  *)
(* the user, keys of the id maps) are sequences of one-character strings,  *)
(* so that int(input) is computed, not assumed.  A polars DataFrame whose  *)
(* row order the program never relies on (interactions_df) is a bag of     *)
(* rows; a DataFrame whose order matters (titles, results) is a sequence.  *)
(***************************************************************************)
EXTENDS Integers, Sequences, FiniteSets, Bags, TLC

VARIABLES
    titles,                         \* self.titles: rows [book_id, ratings]
    interactions_df,                \* self.interactions_df: bag of rows
    map_file,                       \* the lines of book_id_map.csv
    map_pos,                        \* index of the next line map_file.readline() returns
    interactions_to_book_data_map,  \* self.interactions_to_book_data_map
    book_data_to_interactions_map,  \* self.book_data_to_interactions_map
    liked_books,                    \* self.liked_books
    similar_users,                  \* self.similar_users
    call,                           \* the last call: [op, arg, status]
    similarity,                     \* search: local similarity
    indices,                        \* search: local indices
    book_counts,                    \* find_recs: local recs after value_counts
    recs,                           \* find_recs: local filtered_recs before select
    result                          \* what the last call returned

vars == <<titles, interactions_df, map_file, map_pos,
          interactions_to_book_data_map, book_data_to_interactions_map,
          liked_books, similar_users, call, similarity, indices,
          book_counts, recs, result>>

loaded == <<titles, interactions_df, map_file, map_pos,
            interactions_to_book_data_map, book_data_to_interactions_map>>

locals == <<similarity, indices, book_counts, recs>>

----------------------------------------------------------------------------
(* Generic helpers *)

EmptyMap == [x \in {} |-> x]

Min(a, b) == IF a < b THEN a ELSE b

Range(s) == {s[i] : i \in DOMAIN s}

\* DataFrame.head(n) / list slicing [:n]
Head_(s, n) == SubSeq(s, 1, Min(n, Len(s)))

\* dict[key] = value
Put(m, k, v) == [x \in DOMAIN m \cup {k} |-> IF x = k THEN v ELSE m[x]]

\* a <= b for fractions [num, den] with positive denominators
FracLeq(a, b) == a.num * b.den <= b.num * a.den

\* DataFrame.sort(column, descending = True).head(n): the first n rows of the
\* sequences of the elements of S in which key (a fraction per element) never
\* increases.  polars does not keep the order of equal keys, so every order of
\* a tie is a possible result.
RECURSIVE SortDescHead(_, _, _)
SortDescHead(S, key, n) ==
    IF S = {} \/ n = 0 THEN {<<>>}
    ELSE LET top == {x \in S : \A y \in S : FracLeq(key[y], key[x])}
         IN  UNION {{<<x>> \o t : t \in SortDescHead(S \ {x}, key, n - 1)} : x \in top}

\* DataFrame.sort(column, descending = True)
SortDescBy(S, key) == SortDescHead(S, key, Cardinality(S))

\* The subsets of S with exactly k elements.
RECURSIVE KSubsets(_, _)
KSubsets(S, k) ==
    IF k = 0 THEN {{}}
    ELSE IF Cardinality(S) < k THEN {}
    ELSE LET x == CHOOSE y \in S : TRUE
         IN  {T \cup {x} : T \in KSubsets(S \ {x}, k - 1)} \cup KSubsets(S \ {x}, k)

----------------------------------------------------------------------------
(* Python's int(str), line 88 *)

Digits == {"0", "1", "2", "3", "4", "5", "6", "7", "8", "9"}

DigitVal(c) ==
    CASE c = "0" -> 0 [] c = "1" -> 1 [] c = "2" -> 2 [] c = "3" -> 3
      [] c = "4" -> 4 [] c = "5" -> 5 [] c = "6" -> 6 [] c = "7" -> 7
      [] c = "8" -> 8 [] c = "9" -> 9

\* str.strip() on blanks
RECURSIVE LStrip(_)
LStrip(s) == IF s # <<>> /\ Head(s) = " " THEN LStrip(Tail(s)) ELSE s

RECURSIVE RStrip(_)
RStrip(s) ==
    IF s # <<>> /\ s[Len(s)] = " " THEN RStrip(SubSeq(s, 1, Len(s) - 1)) ELSE s

Strip(s) == RStrip(LStrip(s))

RECURSIVE DecimalValue(_)
DecimalValue(s) ==
    IF s = <<>> THEN 0
    ELSE 10 * DecimalValue(SubSeq(s, 1, Len(s) - 1)) + DigitVal(s[Len(s)])

\* int(s): blanks stripped, an optional sign, then one or more digits;
\* anything else raises ValueError (ok = FALSE).
ParseInt(s) ==
    LET t      == Strip(s)
        signed == t # <<>> /\ Head(t) \in {"+", "-"}
        body   == IF signed THEN Tail(t) ELSE t
        valid  == body # <<>> /\ \A i \in DOMAIN body : body[i] \in Digits
    IN  IF ~valid THEN [ok |-> FALSE, val |-> 0]
        ELSE [ok |-> TRUE,
              val |-> IF signed /\ Head(t) = "-" THEN 0 - DecimalValue(body)
                      ELSE DecimalValue(body)]

\* The decimal string of a natural number (names the ids of the data sets).
RECURSIVE Str(_)
Str(n) ==
    LET d == CHOOSE c \in Digits : DigitVal(c) = n % 10
    IN  IF n < 10 THEN <<d>> ELSE Str(n \div 10) \o <<d>>

----------------------------------------------------------------------------
(* The input files.  Book number i has catalog id Str(i) and               *)
(* interaction-space id Str(i - 1): the two id spaces number the same book *)
(* differently.                                                            *)

NBooks == 15      \* books in goodreads_books.json.gz
NVariants == 2    \* interaction data sets tried
MaxPairs == 3     \* lines of book_id_map.csv when the file itself is the input
NQueries == 3     \* search inputs tried
NExtra == 1       \* books beyond the 50 that search keeps, in the search catalog

\* ratings_count of book i, as the text the file holds
RatingsCount(i) ==
    CASE i = 1 -> Str(1000)
      [] i = 2 -> Str(50)
      [] i = 3 -> Str(300)
      [] i = 4 -> Str(5000)
      [] i = 5 -> Str(120)
      [] i = 6 -> Str(25)
      [] i = 7 -> <<>>
      [] i = 8 -> Str(480)
      [] i = 9 -> Str(480)
      [] OTHER -> Str(60 * i)

\* goodreads_books.json.gz after parse_fields (title and url are carried
\* along untouched by every operation and are left out)
BookFile == [i \in 1..NBooks |-> [book_id |-> Str(i), ratings |-> RatingsCount(i)]]

\* book_id_map.csv: "csv_id,book_id" per line
MapFile == [i \in 1..NBooks |-> <<Str(i - 1), Str(i)>>]

\* <<user, book number, rating, number of such rows>>
InteractionTuples(v) ==
    {<<1, 1, 5, 1>>, <<2, 1, 4, 1>>, <<3, 1, 3, 1>>,
     <<1, 2, 5, 26>>, <<3, 2, 5, 1>>, <<4, 2, 2, 3>>,
     <<1, 3, 5, 15>>, <<2, 3, 3, 15>>, <<2, 3, 4, 7>>, <<3, 3, 5, 4>>,
     <<1, 4, 5, 13>>, <<2, 4, 5, 13>>, <<3, 4, 2, 9>>,
     <<2, 5, 4, 1>>, <<1, 5, 3, 14>>, <<3, 5, 5, 14>>,
     <<1, 6, 5, 30>>, <<4, 7, 5, 40>>,
     <<1, 8, 5, 14>>, <<2, 8, 3, 14>>, <<3, 8, 4, 20>>,
     <<1, 9, 5, 12>>, <<2, 9, 3, 13>>, <<3, 9, 5, 3>>}
    \cup {<<u, i, 3 + ((u + i + v) % 3), 13 + ((u * i + v) % 4)>> :
             u \in 1..3, i \in 10..NBooks}
    \cup {<<4, i, 5, 30>> : i \in 8..NBooks}
    \cup (IF v = 1 THEN {<<3, NBooks + 50, 5, 26>>} ELSE {})

InteractionRow(t) == [user_id |-> t[1], csv_id |-> Str(t[2] - 1), rating |-> t[3]]

\* goodreads_interactions.csv, columns user_id, book_id (renamed csv_id), rating
InteractionsFile(v) ==
    LET T == InteractionTuples(v)
    IN  [r \in {InteractionRow(t) : t \in T} |->
            (CHOOSE t \in T : InteractionRow(t) = r)[4]]

\* Map files of at most MaxPairs lines over two ids of each space
MapFiles ==
    LET Lines == {Str(0), Str(1)} \X {Str(1), Str(2)}
    IN  UNION {[1..n -> Lines] : n \in 0..MaxPairs}

----------------------------------------------------------------------------
(* __init__, lines 12-65 *)

MinRatings == 25

\* lines 25-36: keep the books whose ratings_count is an integer above 25
RECURSIVE LoadTitles(_)
LoadTitles(book_file) ==
    IF book_file = <<>> THEN <<>>
    ELSE LET fields  == Head(book_file)
             ratings == ParseInt(fields.ratings)
             rest    == LoadTitles(Tail(book_file))
         IN  IF ~ratings.ok THEN rest
             ELSE IF ratings.val > MinRatings
                  THEN <<[book_id |-> fields.book_id, ratings |-> ratings.val]>> \o rest
                  ELSE rest

\* lines 51-53: one line of the map file entered in both dictionaries
MapLineInto(maps, line) ==
    [i2b |-> Put(maps.i2b, line[1], line[2]),
     b2i |-> Put(maps.b2i, line[2], line[1])]

\* lines 47-53: the whole file
RECURSIVE LoadMaps(_)
LoadMaps(lines) ==
    IF lines = <<>> THEN [i2b |-> EmptyMap, b2i |-> EmptyMap]
    ELSE MapLineInto(LoadMaps(SubSeq(lines, 1, Len(lines) - 1)), lines[Len(lines)])

NoCall == [op |-> "init", arg |-> <<>>, status |-> "ok"]

\* The object as __init__ leaves it, for interaction data set v
Init ==
    \E v \in 0..(NVariants - 1) :
        /\ titles = LoadTitles(BookFile)
        /\ interactions_df = InteractionsFile(v)
        /\ map_file = MapFile
        /\ map_pos = Len(MapFile) + 1
        /\ interactions_to_book_data_map = LoadMaps(MapFile).i2b
        /\ book_data_to_interactions_map = LoadMaps(MapFile).b2i
        /\ liked_books = <<>>
        /\ similar_users = {}
        /\ call = NoCall
        /\ similarity = <<>>
        /\ indices = {}
        /\ book_counts = EmptyMap
        /\ recs = <<>>
        /\ result = <<>>

\* __init__ at line 47, about to read a map file of at most MaxPairs lines
InitLoad ==
    /\ map_file \in MapFiles
    /\ map_pos = 1
    /\ interactions_to_book_data_map = EmptyMap
    /\ book_data_to_interactions_map = EmptyMap
    /\ titles = <<>>
    /\ interactions_df = EmptyBag
    /\ liked_books = <<>>
    /\ similar_users = {}
    /\ call = NoCall
    /\ similarity = <<>>
    /\ indices = {}
    /\ book_counts = EmptyMap
    /\ recs = <<>>
    /\ result = <<>>

\* lines 50-53: one iteration of the map_file.readline() loop
ReadMapLine ==
    /\ map_pos <= Len(map_file)
    /\ LET maps == MapLineInto([i2b |-> interactions_to_book_data_map,
                                b2i |-> book_data_to_interactions_map],
                               map_file[map_pos])
       IN  /\ interactions_to_book_data_map' = maps.i2b
           /\ book_data_to_interactions_map' = maps.b2i
    /\ map_pos' = map_pos + 1
    /\ UNCHANGED <<titles, interactions_df, map_file, liked_books, similar_users,
                   call, similarity, indices, book_counts, recs, result>>

NextLoad == ReadMapLine

SpecLoad == InitLoad /\ [][NextLoad]_vars

----------------------------------------------------------------------------
(* add_liked_book, lines 81-95 *)

\* What the call does with input: "duplicate" (line 82), "not_int" (line 89),
\* "not_positive" (line 94 false) or "appended"
AddOutcome(liked, input) ==
    IF input \in Range(liked) THEN "duplicate"
    ELSE IF ~ParseInt(input).ok THEN "not_int"
    ELSE IF ParseInt(input).val > 0 THEN "appended"
    ELSE "not_positive"

\* add_liked_book without the test of line 94
AddLikedBookAnyInt(liked, input) ==
    IF AddOutcome(liked, input) \in {"appended", "not_positive"}
    THEN Append(liked, input) ELSE liked

\* add_liked_book inserting at the front of the list
AddLikedBookFront(liked, input) ==
    IF AddOutcome(liked, input) = "appended" THEN <<input>> \o liked ELSE liked

AddLikedBook(liked, input) ==
    IF AddOutcome(liked, input) = "appended" THEN Append(liked, input) ELSE liked

\* What the user may type at the book id prompts
Inputs ==
    {Str(1), Str(2), Str(5), <<"0", "5">>, <<"-", "1">>, Str(0), <<>>,
     <<"a", "b", "c">>}

add_liked_book(input) ==
    /\ liked_books' = AddLikedBook(liked_books, input)
    /\ call' = [op |-> "add_liked_book", arg |-> input,
                status |-> AddOutcome(liked_books, input)]
    /\ similarity' = <<>> /\ indices' = {} /\ book_counts' = EmptyMap /\ recs' = <<>>
    /\ result' = <<>>
    /\ UNCHANGED <<loaded, similar_users>>

(* remove_liked_book, lines 98-102 *)

\* list.remove(x): the first occurrence goes
RECURSIVE ListRemove(_, _)
ListRemove(list, x) ==
    IF list = <<>> THEN <<>>
    ELSE IF Head(list) = x THEN Tail(list)
    ELSE <<Head(list)>> \o ListRemove(Tail(list), x)

RemoveLikedBook(liked, input) ==
    IF input \in Range(liked) THEN ListRemove(liked, input) ELSE liked

remove_liked_book(input) ==
    /\ liked_books' = RemoveLikedBook(liked_books, input)
    /\ call' = [op |-> "remove_liked_book", arg |-> input,
                status |-> IF input \in Range(liked_books) THEN "removed" ELSE "absent"]
    /\ similarity' = <<>> /\ indices' = {} /\ book_counts' = EmptyMap /\ recs' = <<>>
    /\ result' = <<>>
    /\ UNCHANGED <<loaded, similar_users>>

(* reset_liked_books, lines 171-172; reset_recs, lines 175-177 *)

\* reset_liked_books doing what reset_recs does
ResetLikedBooksAll(state) == [liked |-> <<>>, similar |-> {}]

ResetLikedBooks(state) == [liked |-> <<>>, similar |-> state.similar]

ResetRecs(state) == [liked |-> <<>>, similar |-> {}]

reset_liked_books ==
    /\ LET after == ResetLikedBooks([liked |-> liked_books, similar |-> similar_users])
       IN  liked_books' = after.liked /\ similar_users' = after.similar
    /\ call' = [op |-> "reset_liked_books", arg |-> <<>>, status |-> "ok"]
    /\ similarity' = <<>> /\ indices' = {} /\ book_counts' = EmptyMap /\ recs' = <<>>
    /\ result' = <<>>
    /\ UNCHANGED loaded

reset_recs ==
    /\ LET after == ResetRecs([liked |-> liked_books, similar |-> similar_users])
       IN  liked_books' = after.liked /\ similar_users' = after.similar
    /\ call' = [op |-> "reset_recs", arg |-> <<>>, status |-> "ok"]
    /\ similarity' = <<>> /\ indices' = {} /\ book_counts' = EmptyMap /\ recs' = <<>>
    /\ result' = <<>>
    /\ UNCHANGED loaded

----------------------------------------------------------------------------
(* find_similar_users, lines 105-131 *)

PositiveRating == 4

\* "no_books" (line 107), "KeyError" (line 114 on a liked book the map lacks)
\* or "ok"
SimilarOutcome(liked, b2i) ==
    IF liked = <<>> THEN "no_books"
    ELSE IF \E k \in DOMAIN liked : liked[k] \notin DOMAIN b2i THEN "KeyError"
    ELSE "ok"

\* lines 112-114 without the translation to interaction-space ids
LikedBooksUnmapped(liked, b2i) == Range(liked)

\* lines 112-114
LikedBooksMapped(liked, b2i) == {b2i[liked[k]] : k \in DOMAIN liked}

\* lines 117-131 building the set afresh instead of adding to it
FindSimilarUsersFresh(liked, similar, df, b2i) ==
    LET filtered == {row \in DOMAIN df : row.csv_id \in LikedBooksMapped(liked, b2i)}
    IN  {row.user_id : row \in {r \in filtered : r.rating >= PositiveRating}}

\* lines 117-131: the rows on a liked book, and the set after the loop
FindSimilarUsers(liked, similar, df, b2i) ==
    LET filtered == {row \in DOMAIN df : row.csv_id \in LikedBooksMapped(liked, b2i)}
    IN  similar \cup {row.user_id : row \in {r \in filtered : r.rating >= PositiveRating}}

\* find_similar_users clearing the set when it stops at line 109
SimilarUsersAfterClearing(liked, similar, df, b2i) ==
    IF SimilarOutcome(liked, b2i) = "ok" THEN FindSimilarUsers(liked, similar, df, b2i)
    ELSE {}

\* self.similar_users when the call ends: by return at line 109, by the
\* KeyError of line 114, or after the loop
SimilarUsersAfter(liked, similar, df, b2i) ==
    IF SimilarOutcome(liked, b2i) = "ok" THEN FindSimilarUsers(liked, similar, df, b2i)
    ELSE similar

find_similar_users ==
    LET outcome == SimilarOutcome(liked_books, book_data_to_interactions_map)
    IN  /\ similar_users' = SimilarUsersAfter(liked_books, similar_users, interactions_df,
                                              book_data_to_interactions_map)
        /\ call' = [op |-> "find_similar_users", arg |-> <<>>, status |-> outcome]
        /\ similarity' = <<>> /\ indices' = {} /\ book_counts' = EmptyMap /\ recs' = <<>>
        /\ result' = <<>>
        /\ UNCHANGED <<loaded, liked_books>>

----------------------------------------------------------------------------
(* find_recs, lines 134-168 *)

RecRating == 3
MinBookCount == 25
RecsHead == 10

\* Int64 & Int64
RECURSIVE BitAnd(_, _)
BitAnd(a, b) ==
    IF a = 0 \/ b = 0 THEN 0
    ELSE (a % 2) * (b % 2) + 2 * BitAnd(a \div 2, b \div 2)

\* line 141: pl.col("user_id").is_in(self.similar_users) & pl.col("rating") > 0.
\* In Python & binds tighter than >, so the expression is
\* (is_in(...) & rating) > 0; polars casts the Boolean operand of & to the
\* integer type of the other operand and takes the bitwise and.
NeighborMask(row, similar) ==
    BitAnd(IF row.user_id \in similar THEN 1 ELSE 0, row.rating) > 0

\* lines 141-142: the rows of recs_df
RecsDf(df, similar) ==
    {row \in DOMAIN df : NeighborMask(row, similar) /\ row.rating >= RecRating}

\* lines 144-145: recs_df["csv_id"].value_counts() as csv_id -> book_count
BookCounts(df, similar) ==
    LET rows == RecsDf(df, similar)
    IN  [c \in {row.csv_id : row \in rows} |->
            BagCardinality([r \in {x \in rows : x.csv_id = c} |-> df[r]])]

\* line 147
Significant(counts) == {c \in DOMAIN counts : counts[c] > MinBookCount}

\* "no_similar_users" (line 136), "KeyError" (line 152) or "ok"
RecsOutcome(similar, counts, i2b) ==
    IF similar = {} THEN "no_similar_users"
    ELSE IF \E c \in Significant(counts) : c \notin DOMAIN i2b THEN "KeyError"
    ELSE "ok"

\* lines 150-158: the rows of the inner join with titles, each named by its
\* csv_id and the index of its titles row
Joined(counts, i2b, ttl) ==
    {p \in Significant(counts) \X (DOMAIN ttl) : ttl[p[2]].book_id = i2b[p[1]]}

\* line 161: book_count * (book_count / ratings), kept as an exact fraction
Score(counts, ttl) ==
    [p \in (DOMAIN counts) \X (DOMAIN ttl) |->
        [num |-> counts[p[1]] * counts[p[1]], den |-> ttl[p[2]].ratings]]

RecRow(p, counts, i2b, ttl) ==
    [book_id |-> i2b[p[1]], book_count |-> counts[p[1]], ratings |-> ttl[p[2]].ratings]

\* line 165 left out
KeepLiked(rows, liked) == rows

\* line 165
DropLiked(rows, liked) ==
    LET NotLiked(r) == r.book_id \notin Range(liked)
    IN  SelectSeq(rows, NotLiked)

\* lines 164-165: every filtered_recs the sort may give
FilteredRecs(counts, i2b, ttl, liked) ==
    {DropLiked([k \in DOMAIN s |-> RecRow(s[k], counts, i2b, ttl)], liked) :
        s \in SortDescBy(Joined(counts, i2b, ttl), Score(counts, ttl))}

\* lines 166-168
SelectHead(rows, n) == Head_([k \in DOMAIN rows |-> rows[k].book_id], n)

find_recs ==
    LET counts  == IF similar_users = {} THEN EmptyMap
                   ELSE BookCounts(interactions_df, similar_users)
        outcome == RecsOutcome(similar_users, counts, interactions_to_book_data_map)
    IN  /\ call' = [op |-> "find_recs", arg |-> <<>>, status |-> outcome]
        /\ book_counts' = counts
        /\ IF outcome = "ok"
           THEN \E f \in FilteredRecs(counts, interactions_to_book_data_map,
                                      titles, liked_books) :
                    /\ recs' = f
                    /\ result' = SelectHead(f, RecsHead)
           ELSE recs' = <<>> /\ result' = <<>>
        /\ similarity' = <<>> /\ indices' = {}
        /\ UNCHANGED <<loaded, liked_books, similar_users>>

----------------------------------------------------------------------------
(* search, lines 68-78 *)

KTH == 10
SLICE == 50
SearchHead == 10

\* lines 69-71: the cosine similarity of the query to each title, in whole
\* units.  The vectorizer is scikit-learn's; what the program does with its
\* output depends only on how the values compare, so query q stands for an
\* input whose similarities are these: q = 0 matches nothing (all zero), the
\* others rank the titles in different orders.
Similarity(q, n) == [i \in 1..n |-> (i * q) % 53]

\* line 73: np.argpartition(similarity, -10)[-50:] as a set of row indices.
\* argpartition places the 10th largest value at position n - 10, larger or
\* equal values after it and smaller or equal values before it, in no
\* particular order; the slice takes the last 50 positions (all, if fewer).
\* So the slice holds some 10 largest and any others.
ArgPartitionSlice(sim) ==
    LET n      == Len(sim)
        all    == 1..n
        \* the value at position n - KTH: the KTH-th largest
        pivot  == CHOOSE v \in Range(sim) :
                     /\ Cardinality({i \in all : sim[i] > v}) < KTH
                     /\ Cardinality({i \in all : sim[i] >= v}) >= KTH
        above  == {i \in all : sim[i] > pivot}
        equal  == {i \in all : sim[i] = pivot}
    IN  IF n <= SLICE THEN {all}
        ELSE {all \ X : X \in {Y \in KSubsets(all \ above, n - SLICE) :
                                  Cardinality(equal \ Y) >= KTH - Cardinality(above)}}

\* lines 74-78: titles[indices] sorted by ratings, the book ids of the first 10
SearchResults(ttl, idx) ==
    {[k \in DOMAIN s |-> ttl[s[k]].book_id] :
        s \in SortDescHead(idx, [i \in idx |-> [num |-> ttl[i].ratings, den |-> 1]],
                           SearchHead)}

search(q) ==
    LET sim == Similarity(q, Len(titles))
    IN  /\ similarity' = sim
        /\ IF Len(titles) < KTH
           THEN \* argpartition raises ValueError: kth out of bounds
                /\ indices' = {} /\ result' = <<>>
                /\ call' = [op |-> "search", arg |-> q, status |-> "ValueError"]
           ELSE /\ \E idx \in ArgPartitionSlice(sim) :
                      /\ indices' = idx
                      /\ \E r \in SearchResults(titles, idx) : result' = r
                /\ call' = [op |-> "search", arg |-> q, status |-> "ok"]
        /\ book_counts' = EmptyMap /\ recs' = <<>>
        /\ UNCHANGED <<loaded, liked_books, similar_users>>

----------------------------------------------------------------------------
(* The interactive session: any call, in any order *)

Next ==
    \/ \E input \in Inputs : add_liked_book(input)
    \/ \E input \in Inputs : remove_liked_book(input)
    \/ reset_liked_books
    \/ reset_recs
    \/ find_similar_users
    \/ find_recs
    \/ \E q \in 0..(NQueries - 1) : search(q)

Spec == Init /\ [][Next]_vars

(* search on a catalog of more than 50 books *)

SearchBookFile ==
    [i \in 1..(SLICE + NExtra) |-> [book_id |-> Str(i), ratings |-> Str(2000 - 10 * i)]]

InitSearch ==
    /\ titles = LoadTitles(SearchBookFile)
    /\ interactions_df = EmptyBag
    /\ map_file = <<>>
    /\ map_pos = 1
    /\ interactions_to_book_data_map = EmptyMap
    /\ book_data_to_interactions_map = EmptyMap
    /\ liked_books = <<>>
    /\ similar_users = {}
    /\ call = NoCall
    /\ similarity = <<>>
    /\ indices = {}
    /\ book_counts = EmptyMap
    /\ recs = <<>>
    /\ result = <<>>

NextSearch == \E q \in 0..(NQueries - 1) : search(q)

SpecSearch == InitSearch /\ [][NextSearch]_vars

----------------------------------------------------------------------------
(* Properties *)

\* The index of x in a list that holds it once
Pos(list, x) == CHOOSE k \in DOMAIN list : list[k] = x

\* C1: add_liked_book appends its input at the end of the liked list exactly
\* when the input parses as an integer, the value is > 0 and the input is not
\* in the list; any other add, and a remove_liked_book of an absent id, leave
\* the liked list and the similar-users set as they were.
C1_AddAppendsOrRejects ==
    [][/\ call'.op = "add_liked_book" =>
            LET input == call'.arg
            IN  IF /\ ParseInt(input).ok
                   /\ ParseInt(input).val > 0
                   /\ ~(\E k \in DOMAIN liked_books : liked_books[k] = input)
                THEN /\ liked_books' = liked_books \o <<input>>
                     /\ similar_users' = similar_users
                ELSE UNCHANGED <<liked_books, similar_users>>
       /\ (/\ call'.op = "remove_liked_book"
           /\ ~(\E k \in DOMAIN liked_books : liked_books[k] = call'.arg))
            => UNCHANGED <<liked_books, similar_users>>]_vars

\* A non-positive integer was just rejected while the session held liked
\* books and similar users.
C1_Witness ==
    /\ call.op = "add_liked_book"
    /\ call.status = "not_positive"
    /\ liked_books # <<>>
    /\ similar_users # {}

NoDuplicates ==
    \A j, k \in DOMAIN liked_books : liked_books[j] = liked_books[k] => j = k

\* The ids present before and after a step keep their relative order, and an
\* id that enters the list enters at the end.
OrderKept ==
    /\ \A a, b \in Range(liked_books) \cap Range(liked_books') :
          Pos(liked_books, a) < Pos(liked_books, b)
              => Pos(liked_books', a) < Pos(liked_books', b)
    /\ \A a \in Range(liked_books') \ Range(liked_books) :
          liked_books'[Len(liked_books')] = a

\* C2: after any sequence of calls the liked list holds no id twice, and the
\* ids present are in the order in which they were (most recently) added.
C2_UniqueInOrder == [](NoDuplicates) /\ [][OrderKept]_vars

\* A second add of a present id was just refused, with several ids present.
C2_Witness ==
    /\ call.op = "add_liked_book"
    /\ call.status = "duplicate"
    /\ Len(liked_books) >= 3

\* C3: a member of the similar-users set stays in it until reset_recs:
\* find_similar_users only adds, and search, add_liked_book,
\* remove_liked_book, reset_liked_books and find_recs leave the set unchanged.
C3_SimilarUsersGrow ==
    [][/\ call'.op # "reset_recs" => similar_users \subseteq similar_users'
       /\ call'.op \in {"search", "add_liked_book", "remove_liked_book",
                        "reset_liked_books", "find_recs"}
            => similar_users' = similar_users]_vars

\* The liked books that brought the similar users in have all been removed.
C3_Witness ==
    /\ call.op = "remove_liked_book"
    /\ call.status = "removed"
    /\ liked_books = <<>>
    /\ similar_users # {}

\* C4: reset_liked_books empties the liked list and keeps the similar-users
\* set; reset_recs empties both; neither touches the catalog, the interaction
\* store or the id maps.
C4_Resets ==
    [][/\ call'.op = "reset_liked_books" =>
            /\ liked_books' = <<>>
            /\ similar_users' = similar_users
            /\ UNCHANGED loaded
       /\ call'.op = "reset_recs" =>
            /\ liked_books' = <<>>
            /\ similar_users' = {}
            /\ UNCHANGED loaded]_vars

\* reset_liked_books has run on a session with similar users.
C4_Witness ==
    /\ call.op = "reset_liked_books"
    /\ liked_books = <<>>
    /\ similar_users # {}

\* C5: find_similar_users on an empty liked list, and find_recs on an empty
\* similar-users set, change neither the liked list nor the similar-users
\* set, and find_recs then returns an empty result.
C5_FailedCallsKeepState ==
    [][/\ (call'.op = "find_similar_users" /\ liked_books = <<>>)
            => UNCHANGED <<liked_books, similar_users>>
       /\ (call'.op = "find_recs" /\ similar_users = {})
            => /\ UNCHANGED <<liked_books, similar_users>>
               /\ result' = <<>>]_vars

\* find_similar_users has stopped on an empty liked list while similar users
\* were held.
C5_Witness ==
    /\ call.op = "find_similar_users"
    /\ call.status = "no_books"
    /\ similar_users # {}

\* The rows find_recs ranks: one per significant interaction-space id and
\* catalog row of its book, the liked books left out
Survivors ==
    {p \in {c \in DOMAIN book_counts : book_counts[c] > 25} \X (DOMAIN titles) :
        /\ titles[p[2]].book_id = interactions_to_book_data_map[p[1]]
        /\ ~(\E k \in DOMAIN liked_books : liked_books[k] = titles[p[2]].book_id)}

SurvivorRow(p) ==
    [book_id |-> titles[p[2]].book_id, book_count |-> book_counts[p[1]],
     ratings |-> titles[p[2]].ratings]

\* C6: with similar users held, find_recs returns at most 10 entries, none of
\* them liked, and they are the first 10 (or all) of the surviving non-liked
\* candidates in descending order of book_count^2 / ratings.
C6_RecsRanked ==
    (call.op = "find_recs" /\ call.status = "ok") =>
        /\ Len(result) <= 10
        /\ \A k \in DOMAIN result : \A j \in DOMAIN liked_books : result[k] # liked_books[j]
        /\ Len(result) = Min(10, Len(recs))
        /\ \A k \in DOMAIN result : result[k] = recs[k].book_id
        /\ \A k \in 1..(Len(recs) - 1) :
              recs[k].book_count * recs[k].book_count * recs[k + 1].ratings
                >= recs[k + 1].book_count * recs[k + 1].book_count * recs[k].ratings
        /\ \A k \in DOMAIN recs : \E p \in Survivors : SurvivorRow(p) = recs[k]
        /\ \A p \in Survivors :
              Cardinality({k \in DOMAIN recs : recs[k] = SurvivorRow(p)})
                = Cardinality({q \in Survivors : SurvivorRow(q) = SurvivorRow(p)})

\* More than 10 candidates survive while a liked book is itself significant.
C6_Witness ==
    /\ call.op = "find_recs"
    /\ call.status = "ok"
    /\ Len(recs) > 10
    /\ \E c \in DOMAIN book_counts :
          /\ book_counts[c] > 25
          /\ \E k \in DOMAIN liked_books :
                liked_books[k] = interactions_to_book_data_map[c]

\* C7: for every pair ingested from the map file, translating its catalog id
\* to interaction space and back returns the same catalog id.
C7_RoundTrip ==
    \A k \in 1..(map_pos - 1) :
        LET catalog_id == map_file[k][2]
        IN  interactions_to_book_data_map[book_data_to_interactions_map[catalog_id]]
              = catalog_id

\* The interaction records of item c by similar users with rating >= 3
NeighborCount(c) ==
    BagCardinality([r \in {x \in DOMAIN interactions_df :
                              /\ x.csv_id = c
                              /\ x.user_id \in similar_users
                              /\ x.rating >= 3} |-> interactions_df[r]])

\* C8: in find_recs the count of an item is the number of its interaction
\* records by similar users with rating >= 3 (3, 4 and 5 all count), and only
\* items whose count is > 25 are candidates.
C8_NeighborCount ==
    (call.op = "find_recs" /\ call.status = "ok") =>
        /\ \A c \in {x.csv_id : x \in DOMAIN interactions_df} :
              NeighborCount(c) = IF c \in DOMAIN book_counts THEN book_counts[c] ELSE 0
        /\ \A k \in DOMAIN recs : recs[k].book_count > 25

\* C9: on a catalog of more than 50 books search returns at most 10 books,
\* each among the 50 most similar to the query (boundary ties aside): fewer
\* than 50 books are strictly more similar than a returned one.
C9_SearchTop50 ==
    (call.op = "search" /\ call.status = "ok" /\ Len(titles) > 50) =>
        /\ Len(result) <= 10
        /\ \A k \in DOMAIN result :
              \A i \in DOMAIN titles :
                  titles[i].book_id = result[k] =>
                      Cardinality({j \in DOMAIN titles : similarity[j] > similarity[i]}) < 50

\* C10: find_similar_users on a non-empty liked list whose ids are all mapped
\* leaves the similar-users set equal to its old value united with the users
\* that have a record with rating >= 4 on the interaction-space id of a liked
\* book.
C10_SimilarUsersAdded ==
    [][(/\ call'.op = "find_similar_users"
        /\ liked_books # <<>>
        /\ \A k \in DOMAIN liked_books :
              liked_books[k] \in DOMAIN book_data_to_interactions_map)
          => similar_users' = similar_users \cup
                {u \in {x.user_id : x \in DOMAIN interactions_df} :
                    \E x \in DOMAIN interactions_df :
                        /\ x.user_id = u
                        /\ x.rating >= 4
                        /\ \E k \in DOMAIN liked_books :
                              x.csv_id = book_data_to_interactions_map[liked_books[k]]}]_vars

\* Books 1 and 2 are liked; user 2 (4 on book 1) is in, user 3 (3 on book 1,
\* 5 on book 2) is in, user 4 (2 on book 2, 5 on books not liked) is not.
C10_Witness ==
    /\ call.op = "find_similar_users"
    /\ call.status = "ok"
    /\ Len(liked_books) >= 2
    /\ similar_users = {1, 2, 3}
====
